---- MODULE Spec2Model ----
(***************************************************************************)
(* Model of the CBDC tax base simulator (Kai-23100/cbdc-tax-base-simulator) *)
(*                                                                         *)
(*   src/cbdc_tax_simulator.py   the two-scenario app with JSON save/load  *)
(*   src/cbdc_tax_simulator2.py  the single-scenario app with macro        *)
(*                               factors and the World Bank indicators     *)
(*                                                                         *)
(* Both files are Streamlit scripts: every user event runs the script from *)
(* top to bottom.  One action of the model is one event together with the  *)
(* whole script run it triggers.                                           *)
(*                                                                         *)
(* Arithmetic.  The scripts compute in Python floats.  The model computes  *)
(* the same expressions, in the same order, in exact non-negative rational *)
(* arithmetic (numerator and denominator are arbitrary-precision naturals, *)
(* because TLC's integers are 32 bits wide); float rounding is not         *)
(* modelled.                                                               *)
(***************************************************************************)
EXTENDS Integers, Sequences, FiniteSets, TLC

(***************************************************************************)
(* Arbitrary-precision naturals: little-endian sequences of limbs in       *)
(* 0..Base-1 without high zero limbs; zero is the empty sequence.          *)
(***************************************************************************)
Base == 10000

RECURSIVE BigNorm(_)
BigNorm(x) ==
    IF x = <<>> THEN <<>>
    ELSE IF x[Len(x)] = 0 THEN BigNorm(SubSeq(x, 1, Len(x) - 1))
    ELSE x

RECURSIVE BigFromInt(_)
BigFromInt(n) ==
    IF n = 0 THEN <<>> ELSE <<n % Base>> \o BigFromInt(n \div Base)

RECURSIVE BigAddC(_, _, _)
BigAddC(x, y, c) ==
    IF x = <<>> /\ y = <<>> THEN (IF c = 0 THEN <<>> ELSE <<c>>)
    ELSE LET a == IF x = <<>> THEN 0 ELSE x[1]
             b == IF y = <<>> THEN 0 ELSE y[1]
             s == a + b + c
         IN  <<s % Base>> \o BigAddC(IF x = <<>> THEN <<>> ELSE Tail(x),
                                     IF y = <<>> THEN <<>> ELSE Tail(y),
                                     s \div Base)

BigAdd(x, y) == BigAddC(x, y, 0)

\* x * k + c for a limb-sized k (0 <= k < Base)
RECURSIVE BigMulLimbC(_, _, _)
BigMulLimbC(x, k, c) ==
    IF x = <<>> THEN (IF c = 0 THEN <<>> ELSE <<c>>)
    ELSE LET p == x[1] * k + c
         IN  <<p % Base>> \o BigMulLimbC(Tail(x), k, p \div Base)

BigMulLimb(x, k) == IF k = 0 THEN <<>> ELSE BigMulLimbC(x, k, 0)

RECURSIVE BigMul(_, _)
BigMul(x, y) ==
    IF x = <<>> \/ y = <<>> THEN <<>>
    ELSE LET rest == BigMul(x, Tail(y))
         IN  BigAdd(BigMulLimb(x, y[1]),
                    IF rest = <<>> THEN <<>> ELSE <<0>> \o rest)

\* x - y for x >= y
RECURSIVE BigSubB(_, _, _)
BigSubB(x, y, b) ==
    IF x = <<>> THEN <<>>
    ELSE LET s == x[1] - (IF y = <<>> THEN 0 ELSE y[1]) - b
         IN  <<IF s < 0 THEN s + Base ELSE s>>
             \o BigSubB(Tail(x), IF y = <<>> THEN <<>> ELSE Tail(y),
                        IF s < 0 THEN 1 ELSE 0)

BigSub(x, y) == BigNorm(BigSubB(x, y, 0))

RECURSIVE BigLtFrom(_, _, _)
BigLtFrom(x, y, i) ==
    IF i = 0 THEN FALSE
    ELSE IF x[i] # y[i] THEN x[i] < y[i]
    ELSE BigLtFrom(x, y, i - 1)

BigLt(x, y) ==
    IF Len(x) # Len(y) THEN Len(x) < Len(y) ELSE BigLtFrom(x, y, Len(x))

BigLeq(x, y) == ~BigLt(y, x)

(***************************************************************************)
(* Non-negative rationals [n |-> numerator, d |-> denominator], d > 0.     *)
(* A value whose numerator and denominator fit two limbs is kept in lowest *)
(* terms, larger ones are not reduced, so two rationals are compared with  *)
(* QEq and QLeq (cross multiplication), never with =.                      *)
(***************************************************************************)
RECURSIVE Gcd(_, _)
Gcd(a, b) == IF b = 0 THEN a ELSE Gcd(b, a % b)

Q(a, b) ==
    LET g == Gcd(a, b)
    IN  [n |-> BigFromInt(a \div g), d |-> BigFromInt(b \div g)]

QInt(a) == Q(a, 1)

\* the machine integer of a natural of at most two limbs
BigToInt(x) ==
    CASE Len(x) = 0 -> 0
      [] Len(x) = 1 -> x[1]
      [] OTHER -> x[1] + Base * x[2]

QNorm(x) ==
    IF Len(x.n) <= 2 /\ Len(x.d) <= 2 THEN Q(BigToInt(x.n), BigToInt(x.d)) ELSE x

QAdd(x, y) ==
    QNorm(IF x.d = y.d THEN [n |-> BigAdd(x.n, y.n), d |-> x.d]
          ELSE [n |-> BigAdd(BigMul(x.n, y.d), BigMul(y.n, x.d)),
                d |-> BigMul(x.d, y.d)])

\* x - y for x >= y
QSub(x, y) ==
    QNorm([n |-> BigSub(BigMul(x.n, y.d), BigMul(y.n, x.d)),
           d |-> BigMul(x.d, y.d)])

QMul(x, y) == QNorm([n |-> BigMul(x.n, y.n), d |-> BigMul(x.d, y.d)])

\* x / k for a positive machine integer k
QDivInt(x, k) == QNorm([n |-> x.n, d |-> BigMul(x.d, BigFromInt(k))])

RECURSIVE QPow(_, _)
QPow(x, t) == IF t = 0 THEN QInt(1) ELSE QMul(x, QPow(x, t - 1))

QEq(x, y) == BigMul(x.n, y.d) = BigMul(y.n, x.d)

QLeq(x, y) == BigLeq(BigMul(x.n, y.d), BigMul(y.n, x.d))

QLt(x, y) == BigLt(BigMul(x.n, y.d), BigMul(y.n, x.d))

(***************************************************************************)
(* Python values.  A value held by a widget, by st.session_state or by a   *)
(* parsed JSON document is a record [ty, n, s, members]:                   *)
(*   ty = "int"    a Python int, n its value                               *)
(*   ty = "float"  a Python float, n its value in units of 1/FloatScale    *)
(*   ty = "str"    a string, s its text;   ty = "null"  None               *)
(*   ty = "obj"    a dict, members its items [key, val] in insertion order *)
(***************************************************************************)
FloatScale == 10

PyInt(i) == [ty |-> "int", n |-> i, s |-> "", members |-> <<>>]

PyFloat(tenths) == [ty |-> "float", n |-> tenths, s |-> "", members |-> <<>>]

PyStr(text) == [ty |-> "str", n |-> 0, s |-> text, members |-> <<>>]

PyNone == [ty |-> "null", n |-> 0, s |-> "", members |-> <<>>]

PyDict(items) == [ty |-> "obj", n |-> 0, s |-> "", members |-> items]

IsNumber(v) == v.ty \in {"int", "float"}

\* the number a numeric value stands for
NumQ(v) == IF v.ty = "float" THEN Q(v.n, FloatScale) ELSE QInt(v.n)

\* Python truthiness (bool(v)) of a value
Truthy(v) ==
    CASE v.ty = "null" -> FALSE
      [] v.ty = "obj" -> v.members # <<>>
      [] v.ty = "str" -> v.s # ""
      [] OTHER -> v.n # 0

(***************************************************************************)
(* cbdc_tax_simulator.py: simulate_tax_base                                *)
(***************************************************************************)
alpha == Q(5, 10)

\* np.arange(years, 0, -1) in the place of line 15
years_arr_reversed(years) == [i \in 1..years |-> years + 1 - i]

\* np.arange(1, years + 1)
years_arr(years) == [i \in 1..years |-> i]

\* line 16 without its "1 +"
multiplier_increment_only(adoption_rate, compliance_increase, t) ==
    QMul(QMul(QMul(alpha, QDivInt(NumQ(adoption_rate), 100)),
              QDivInt(NumQ(compliance_increase), 100)),
         QInt(t))

\* line 16 with the increment compounded over the years
multiplier_compound(adoption_rate, compliance_increase, t) ==
    QPow(QAdd(QInt(1),
              QMul(QMul(alpha, QDivInt(NumQ(adoption_rate), 100)),
                   QDivInt(NumQ(compliance_increase), 100))),
         t)

\* line 16, for one element t of years_arr
multiplier(adoption_rate, compliance_increase, t) ==
    QAdd(QInt(1),
         QMul(QMul(QMul(alpha, QDivInt(NumQ(adoption_rate), 100)),
                   QDivInt(NumQ(compliance_increase), 100)),
              QInt(t)))

\* the arithmetic of lines 15-18 raises TypeError on a str or None operand
simulate_raises(baseline, adoption_rate, compliance_increase, tax_rate, years) ==
    \/ years.ty # "int"
    \/ ~IsNumber(adoption_rate)
    \/ ~IsNumber(compliance_increase)
    \/ ~IsNumber(baseline)
    \/ ~IsNumber(tax_rate)

\* line 18 taking the rate of the baseline in the place of tax_base
simulate_row_revenue_of_baseline(baseline, adoption_rate, compliance_increase, tax_rate, t) ==
    LET tax_base == QMul(NumQ(baseline),
                         multiplier(adoption_rate, compliance_increase, t))
        tax_revenue == QMul(NumQ(baseline), QDivInt(NumQ(tax_rate), 100))
    IN  [Year |-> t, TaxBase |-> tax_base, TaxRevenue |-> tax_revenue]

\* lines 17-23, the row of year t
simulate_row(baseline, adoption_rate, compliance_increase, tax_rate, t) ==
    LET tax_base == QMul(NumQ(baseline),
                         multiplier(adoption_rate, compliance_increase, t))
        tax_revenue == QMul(tax_base, QDivInt(NumQ(tax_rate), 100))
    IN  [Year |-> t, TaxBase |-> tax_base, TaxRevenue |-> tax_revenue]

\* np.arange(1, years) in the place of line 15
simulate_tax_base_short(baseline, adoption_rate, compliance_increase, tax_rate, years) ==
    [i \in 1..(years.n - 1) |->
        simulate_row(baseline, adoption_rate, compliance_increase, tax_rate, i)]

\* the data frame: one row per element of years_arr, in its order
simulate_tax_base(baseline, adoption_rate, compliance_increase, tax_rate, years) ==
    [i \in DOMAIN years_arr(years.n) |->
        simulate_row(baseline, adoption_rate, compliance_increase, tax_rate,
                     years_arr(years.n)[i])]

(***************************************************************************)
(* json.dumps and json.loads.  A JSON text is a sequence of tokens         *)
(* [t, s, ds, fs]: the punctuation "{" "}" ":" ",", a string literal       *)
(* (t = "str", s its text), null, and a number literal with the decimal      *)
(* digits ds of its integer part and fs of its fraction (fs = <<>> for an  *)
(* integer literal).  Numbers are non-negative; a float carries one        *)
(* fraction digit, which is what repr() prints for the floats of the       *)
(* model.                                                                  *)
(***************************************************************************)
Punct(c) == [t |-> c, s |-> "", ds |-> <<>>, fs |-> <<>>]

StrTok(text) == [t |-> "str", s |-> text, ds |-> <<>>, fs |-> <<>>]

NullTok == [t |-> "null", s |-> "", ds |-> <<>>, fs |-> <<>>]

NumTok(digits, fraction) == [t |-> "num", s |-> "", ds |-> digits, fs |-> fraction]

\* the decimal digits of n, most significant first (str(n))
RECURSIVE Digits(_)
Digits(n) == IF n < 10 THEN <<n>> ELSE Append(Digits(n \div 10), n % 10)

\* int(digits)
RECURSIVE DigitsToInt(_)
DigitsToInt(ds) ==
    IF ds = <<>> THEN 0
    ELSE DigitsToInt(SubSeq(ds, 1, Len(ds) - 1)) * 10 + ds[Len(ds)]

RECURSIVE Dumps(_)
RECURSIVE DumpsItems(_)
DumpsItems(items) ==
    IF items = <<>> THEN <<>>
    ELSE <<StrTok(items[1].key), Punct(":")>> \o Dumps(items[1].val)
         \o (IF Len(items) = 1 THEN <<>>
             ELSE <<Punct(",")>> \o DumpsItems(Tail(items)))

Dumps(v) ==
    CASE v.ty = "int" -> <<NumTok(Digits(v.n), <<>>)>>
      [] v.ty = "float" ->
            <<NumTok(Digits(v.n \div FloatScale), <<v.n % FloatScale>>)>>
      [] v.ty = "str" -> <<StrTok(v.s)>>
      [] v.ty = "null" -> <<NullTok>>
      [] OTHER -> <<Punct("{")>> \o DumpsItems(v.members) \o <<Punct("}")>>

\* dict[key] = val: a repeated key keeps its place and takes the new value
DictSet(items, key, val) ==
    IF \E i \in DOMAIN items : items[i].key = key
    THEN [i \in DOMAIN items |->
            IF items[i].key = key THEN [key |-> key, val |-> val] ELSE items[i]]
    ELSE Append(items, [key |-> key, val |-> val])

HasKey(v, key) == v.ty = "obj" /\ \E i \in DOMAIN v.members : v.members[i].key = key

\* v[key] for a dict v that has the key
Item(v, key) ==
    v.members[CHOOSE i \in DOMAIN v.members : v.members[i].key = key].val

\* the parser: [ok, val, next], next the index after the value parsed
ParseFail == [ok |-> FALSE, val |-> PyNone, next |-> 0]

RECURSIVE ParseValue(_, _)
RECURSIVE ParseMembers(_, _, _)
ParseMembers(toks, i, items) ==
    IF i + 2 > Len(toks) \/ toks[i].t # "str" \/ toks[i + 1].t # ":"
    THEN ParseFail
    ELSE LET r == ParseValue(toks, i + 2)
         IN  IF ~r.ok \/ r.next > Len(toks) THEN ParseFail
             ELSE LET got == DictSet(items, toks[i].s, r.val)
                  IN  CASE toks[r.next].t = "}" ->
                             [ok |-> TRUE, val |-> PyDict(got), next |-> r.next + 1]
                        [] toks[r.next].t = "," ->
                             ParseMembers(toks, r.next + 1, got)
                        [] OTHER -> ParseFail

ParseValue(toks, i) ==
    IF i > Len(toks) THEN ParseFail
    ELSE LET k == toks[i]
         IN  CASE k.t = "num" ->
                    IF Len(k.ds) = 0 \/ (Len(k.ds) > 1 /\ k.ds[1] = 0)
                    THEN ParseFail
                    ELSE IF k.fs = <<>>
                    THEN [ok |-> TRUE, val |-> PyInt(DigitsToInt(k.ds)), next |-> i + 1]
                    ELSE [ok |-> TRUE,
                          val |-> PyFloat(DigitsToInt(k.ds) * FloatScale + k.fs[1]),
                          next |-> i + 1]
               [] k.t = "str" -> [ok |-> TRUE, val |-> PyStr(k.s), next |-> i + 1]
               [] k.t = "null" -> [ok |-> TRUE, val |-> PyNone, next |-> i + 1]
               [] k.t = "{" ->
                    IF i + 1 <= Len(toks) /\ toks[i + 1].t = "}"
                    THEN [ok |-> TRUE, val |-> PyDict(<<>>), next |-> i + 2]
                    ELSE ParseMembers(toks, i + 1, <<>>)
               [] OTHER -> ParseFail

\* json.loads: the whole text is one value, else ValueError
Loads(toks) ==
    LET r == ParseValue(toks, 1)
    IN  IF r.ok /\ r.next = Len(toks) + 1 THEN r ELSE ParseFail

(***************************************************************************)
(* cbdc_tax_simulator.py: save_simulation, load_simulation                 *)
(***************************************************************************)
\* the dictionary keys of a snapshot
K_scenario_a == "scenario_a"
K_scenario_b == "scenario_b"
K_time_horizon == "time_horizon"
K_Baseline == "Baseline Tax Base (UGX Bn)"
K_Adoption == "CBDC Adoption Rate (%)"
K_Compliance == "Compliance Improvement (%)"
K_TaxRate == "Tax Rate (%)"

save_simulation(params_a, params_b, time_horizon) ==
    LET data == PyDict(<<[key |-> K_scenario_a, val |-> params_a],
                         [key |-> K_scenario_b, val |-> params_b],
                         [key |-> K_time_horizon, val |-> time_horizon]>>)
    IN  Dumps(data)

\* dict.get(key): None for a missing key
Get(data, key) == IF HasKey(data, key) THEN Item(data, key) ELSE PyNone

\* json.loads raising, or data.get raising on a non-dict, gives three Nones
load_simulation(json_str) ==
    LET r == Loads(json_str)
    IN  IF r.ok /\ r.val.ty = "obj"
        THEN <<Get(r.val, K_scenario_a), Get(r.val, K_scenario_b),
               Get(r.val, K_time_horizon)>>
        ELSE <<PyNone, PyNone, PyNone>>

(***************************************************************************)
(* State.                                                                  *)
(*                                                                         *)
(* app             which script "streamlit run" was started with           *)
(*                                                                         *)
(* cbdc_tax_simulator.py ("scenarios"):                                    *)
(* session_state   st.session_state: the value under each widget key       *)
(* inputs          what the nine widgets returned in the last run (the     *)
(*                 script's baseline_a ... time_horizon, lines 89-101)     *)
(* df_a, df_b      the data frames of the last run (<<>> before line 104   *)
(*                 or 105 was passed)                                      *)
(* final           <<final_a, final_b>> of the last run, <<>> if not read  *)
(* download        the text behind the "Download Simulation JSON" button   *)
(* uploaded_file   the file attached to the uploader                       *)
(* load_msg        what the load block displayed in the last run           *)
(* crashed         the last run ended in an uncaught exception             *)
(* pending         the last run ended in st.experimental_rerun()           *)
(* applied         how many runs in a row applied the attached file (a     *)
(*                 history variable, it stops counting at MaxApplied)      *)
(* run_no          the number of script runs so far, modulo RunNoMod       *)
(*                                                                         *)
(* cbdc_tax_simulator2.py ("macro"):                                       *)
(* widgets         the sidebar widgets' values                             *)
(* cache           st.cache_data's entry per indicator code                *)
(* latest_gdp, latest_population   what the last run got from the fetch    *)
(* sidebar         the two lines of the "Real-time Economic Data" expander *)
(* df_results      the data frame of the last run                          *)
(***************************************************************************)
VARIABLES app, session_state, inputs, df_a, df_b, final, download, uploaded_file,
          load_msg, crashed, pending, applied, run_no,
          widgets, cache, latest_gdp, latest_population, sidebar, df_results

vars1 == <<session_state, inputs, df_a, df_b, final, download, uploaded_file,
           load_msg, crashed, pending, applied, run_no>>

vars2 == <<widgets, cache, latest_gdp, latest_population, sidebar, df_results>>

vars == <<app, vars1, vars2>>

\* bounds of the model
MaxYears == 2
MaxApplied == 2
RunNoMod == 2

\* the widgets' ranges (lines 89-101)
MinBaseline == 100
MaxPercent == 100
MaxTaxRate == 50
MaxHorizon == 10

\* the values the user gives the widgets in the model, all within the ranges:
\* the defaults, the lower ends, and the horizons up to MaxYears; of
\* scenario B's widgets the user moves the adoption slider only
BaselineValues == {PyFloat(MinBaseline * FloatScale), PyFloat(50000)}
AdoptionValues == {PyInt(0), PyInt(50)}
ComplianceValues == {PyInt(20)}
TaxRateValues == {PyInt(0), PyInt(15)}
HorizonValues == {PyInt(i) : i \in 1..MaxYears} \cup {PyInt(5)}

WidgetKeys == {"ba", "aa", "ca", "tra", "bb", "ab", "cb", "trb", "th"}

WidgetValues(key) ==
    CASE key = "ba" -> BaselineValues
      [] key \in {"aa", "ab"} -> AdoptionValues
      [] key = "tra" -> TaxRateValues
      [] key = "th" -> HorizonValues
      [] key = "bb" -> {PyFloat(50000)}
      [] key \in {"ca", "cb"} -> ComplianceValues
      [] OTHER -> {PyInt(15)}

\* the widgets' default values (lines 89-101)
DefaultSession ==
    [ba |-> PyFloat(50000), aa |-> PyInt(50), ca |-> PyInt(20), tra |-> PyInt(15),
     bb |-> PyFloat(50000), ab |-> PyInt(50), cb |-> PyInt(20), trb |-> PyInt(15),
     th |-> PyInt(5)]

\* a text offered for download, or attached to the uploader
NoFile == [present |-> FALSE, content |-> <<>>]

File(text) == [present |-> TRUE, content |-> text]

(***************************************************************************)
(* cbdc_tax_simulator.py: one run of the script                            *)
(***************************************************************************)
\* lines 146-157: the dictionaries the Save button builds
params_a(ss) ==
    PyDict(<<[key |-> K_Baseline, val |-> ss.ba], [key |-> K_Adoption, val |-> ss.aa],
             [key |-> K_Compliance, val |-> ss.ca], [key |-> K_TaxRate, val |-> ss.tra]>>)

params_b(ss) ==
    PyDict(<<[key |-> K_Baseline, val |-> ss.bb], [key |-> K_Adoption, val |-> ss.ab],
             [key |-> K_Compliance, val |-> ss.cb], [key |-> K_TaxRate, val |-> ss.trb]>>)

(***************************************************************************)
(* The files the user uploads in the model: snapshots the Save button      *)
(* wrote, and files that are not such snapshots.                           *)
(***************************************************************************)
Snapshot(a, b, th) ==
    Dumps(PyDict(<<[key |-> K_scenario_a, val |-> a],
                   [key |-> K_scenario_b, val |-> b],
                   [key |-> K_time_horizon, val |-> th]>>))

ZeroSession ==
    [ba |-> PyFloat(MinBaseline * FloatScale), aa |-> PyInt(0), ca |-> PyInt(0),
     tra |-> PyInt(0), bb |-> PyFloat(50000), ab |-> PyInt(MaxPercent),
     cb |-> PyInt(20), trb |-> PyInt(15), th |-> PyInt(1)]

SavedSessions == {DefaultSession, ZeroSession}

SavedFiles == {save_simulation(params_a(ss), params_b(ss), ss.th) : ss \in SavedSessions}

WithoutKey(d, key) ==
    PyDict(SelectSeq(d.members, LAMBDA m : m.key # key))

WithItem(d, key, val) == PyDict(DictSet(d.members, key, val))

DefaultA == params_a(DefaultSession)

DefaultB == params_b(DefaultSession)

\* scenario_a without "Tax Rate (%)"
MissingTaxRateA == Snapshot(WithoutKey(DefaultA, K_TaxRate), DefaultB, PyInt(2))

\* scenario_b without "CBDC Adoption Rate (%)"
MissingAdoptionB ==
    Snapshot(params_a(ZeroSession), WithoutKey(DefaultB, K_Adoption), PyInt(2))

\* a string and a null where numbers belong
NotNumeric ==
    Snapshot(WithItem(DefaultA, K_Adoption, PyStr("fifty")),
             WithItem(DefaultB, K_TaxRate, PyNone), PyInt(2))

\* adoption above 100 and tax rate above 50
PercentOutOfRange ==
    Snapshot(WithItem(DefaultA, K_Adoption, PyInt(MaxPercent + 50)),
             WithItem(DefaultB, K_TaxRate, PyInt(MaxTaxRate + 25)), PyInt(2))

\* baseline below 100 and time horizon above 10
HorizonOutOfRange ==
    Snapshot(WithItem(DefaultA, K_Baseline, PyFloat((MinBaseline \div 2) * FloatScale)),
             DefaultB, PyInt(MaxHorizon + 1))

\* a text cut off before its last brace: json.loads raises
Truncated ==
    LET text == Snapshot(DefaultA, DefaultB, PyInt(2))
    IN  SubSeq(text, 1, Len(text) - 1)

\* time_horizon 0
ZeroHorizon == Snapshot(DefaultA, DefaultB, PyInt(0))

\* scenario_a a string instead of an object
ScenarioNotDict == Snapshot(PyStr("A"), DefaultB, PyInt(2))

OtherFiles ==
    {MissingTaxRateA, MissingAdoptionB, NotNumeric, PercentOutOfRange,
     HorizonOutOfRange, Truncated, ZeroHorizon, ScenarioNotDict}

(***************************************************************************)
(* Tables computed once.  The data frame of every argument tuple, and the  *)
(* parse of every file, that a run of the model can ask for are computed   *)
(* when checking starts and looked up afterwards, one argument at a time;  *)
(* a lookup outside the tables is an evaluation error, not a value.        *)
(***************************************************************************)
Frames ==
    [b \in BaselineValues \cup {PyFloat((MinBaseline \div 2) * FloatScale)} |->
     [a \in AdoptionValues \cup {PyInt(MaxPercent), PyInt(MaxPercent + 50)} |->
      [c \in ComplianceValues \cup {PyInt(0)} |->
       [r \in TaxRateValues \cup {PyInt(MaxTaxRate + 25)} |->
        [y \in HorizonValues \cup {PyInt(MaxHorizon + 1)} |->
           simulate_tax_base(b, a, c, r, y)]]]]]

Frame(baseline, adoption_rate, compliance_increase, tax_rate, years) ==
    Frames[baseline][adoption_rate][compliance_increase][tax_rate][years]

KnownFiles == SavedFiles \cup OtherFiles

Parses == [text \in KnownFiles |-> load_simulation(text)]

Loaded(text) ==
    IF text \in KnownFiles THEN Parses[text] ELSE load_simulation(text)

\* lines 162-166: the attached file and what load_simulation returns for its
\* text; the script computes it in every run from the same text, the model
\* computes it once, when the file is attached
NoUpload == [present |-> FALSE, content |-> <<>>, loaded |-> <<PyNone, PyNone, PyNone>>]

Attached(text) == [present |-> TRUE, content |-> text, loaded |-> Loaded(text)]

\* lines 169-179 in order: the widget key assigned, which loaded value is
\* read ("a", "b" or "th"), and the dictionary key read from it
LoadAssignments ==
    <<[key |-> "ba", from |-> "a", item |-> K_Baseline],
      [key |-> "aa", from |-> "a", item |-> K_Adoption],
      [key |-> "ca", from |-> "a", item |-> K_Compliance],
      [key |-> "tra", from |-> "a", item |-> K_TaxRate],
      [key |-> "bb", from |-> "b", item |-> K_Baseline],
      [key |-> "ab", from |-> "b", item |-> K_Adoption],
      [key |-> "cb", from |-> "b", item |-> K_Compliance],
      [key |-> "trb", from |-> "b", item |-> K_TaxRate],
      [key |-> "th", from |-> "th", item |-> ""]>>

\* the assignments from the i-th on; loaded[...] raises KeyError on a missing
\* key and TypeError on a value that is no dict, and the assignments made
\* before it stay made
RECURSIVE Assign(_, _, _, _, _)
Assign(ss, loaded_a, loaded_b, loaded_th, i) ==
    IF i > Len(LoadAssignments) THEN [session_state |-> ss, raised |-> FALSE]
    ELSE LET step == LoadAssignments[i]
             src == IF step.from = "a" THEN loaded_a ELSE loaded_b
         IN  IF step.from = "th"
             THEN Assign([ss EXCEPT ![step.key] = loaded_th],
                         loaded_a, loaded_b, loaded_th, i + 1)
             ELSE IF HasKey(src, step.item)
             THEN Assign([ss EXCEPT ![step.key] = Item(src, step.item)],
                         loaded_a, loaded_b, loaded_th, i + 1)
             ELSE [session_state |-> ss, raised |-> TRUE]

\* lines 169-180: the assignments, then the rerun unless one of them raised
LoadApply(r) ==
    [session_state |-> r.session_state, load_msg |-> "success",
     crashed |-> r.raised, pending |-> ~r.raised]

\* line 167 asking every loaded parameter to be truthy as well
LoadBranch_all_truthy(ss, loaded) ==
    IF /\ Truthy(loaded[1]) /\ Truthy(loaded[2]) /\ Truthy(loaded[3])
       /\ \A i \in 1..2 : loaded[i].ty = "obj" =>
              \A j \in DOMAIN loaded[i].members : Truthy(loaded[i].members[j].val)
    THEN LoadApply(Assign(ss, loaded[1], loaded[2], loaded[3], 1))
    ELSE [session_state |-> ss, load_msg |-> "error", crashed |-> FALSE,
          pending |-> FALSE]

\* lines 167-182: the branch on what load_simulation returned
LoadBranch(ss, loaded) ==
    IF Truthy(loaded[1]) /\ Truthy(loaded[2]) /\ Truthy(loaded[3])
    THEN LoadApply(Assign(ss, loaded[1], loaded[2], loaded[3], 1))
    ELSE [session_state |-> ss, load_msg |-> "error", crashed |-> FALSE,
          pending |-> FALSE]

\* lines 162-182
LoadBlock(ss, up) ==
    IF ~up.present
    THEN [session_state |-> ss, load_msg |-> "none", crashed |-> FALSE,
          pending |-> FALSE]
    ELSE LoadBranch(ss, up.loaded)

\* what a run that died before the load block leaves behind
Aborted(ss, a, b) ==
    [session_state |-> ss, df_a |-> a, df_b |-> b, final |-> <<>>,
     download |-> NoFile, load_msg |-> "none", crashed |-> TRUE, pending |-> FALSE]

\* lines 128-182 given the two data frames a and b and the outcome l of the
\* load block; df.iloc[-1] raises IndexError on an empty frame
Display(ss, a, b, l, save_clicked) ==
    IF a = <<>> \/ b = <<>> THEN Aborted(ss, a, b)
    ELSE [session_state |-> l.session_state, df_a |-> a, df_b |-> b,
          final |-> <<a[Len(a)], b[Len(b)]>>,
          download |-> IF save_clicked
                       THEN File(save_simulation(params_a(ss), params_b(ss), ss.th))
                       ELSE NoFile,
          load_msg |-> l.load_msg, crashed |-> l.crashed, pending |-> l.pending]

\* lines 85-182: a widget returns the value st.session_state holds under its
\* key; save_clicked says whether this run was started by the Save button
Script(ss, up, save_clicked) ==
    IF simulate_raises(ss.ba, ss.aa, ss.ca, ss.tra, ss.th)
    THEN Aborted(ss, <<>>, <<>>)
    ELSE IF simulate_raises(ss.bb, ss.ab, ss.cb, ss.trb, ss.th)
    THEN Aborted(ss, Frame(ss.ba, ss.aa, ss.ca, ss.tra, ss.th), <<>>)
    ELSE Display(ss, Frame(ss.ba, ss.aa, ss.ca, ss.tra, ss.th),
                 Frame(ss.bb, ss.ab, ss.cb, ss.trb, ss.th),
                 LoadBlock(ss, up), save_clicked)

(***************************************************************************)
(* cbdc_tax_simulator2.py: one run of the script                           *)
(***************************************************************************)
IndicatorCodes == {"NY.GDP.MKTP.CD", "SP.POP.TOTL"}

\* what requests.get and the indexing of lines 23-25 can end in: the value of
\* the response, or None after any exception or for a null value
FetchOutcomes == {PyNone, PyFloat(48500)}

NoEntry == [hit |-> FALSE, value |-> PyNone]

Entry(v) == [hit |-> TRUE, value |-> v]

\* lines 19-28 under st.cache_data: the cached return value if there is one,
\* else the outcome of the request
fetch_world_bank_data(c, indicator_code, outcome) ==
    IF c[indicator_code].hit THEN c[indicator_code].value ELSE outcome

\* lines 35-36: the conditional expression picks the text
gdp_line(gdp) ==
    IF Truthy(gdp) THEN "Uganda GDP (current US$)" ELSE "GDP data unavailable"

population_line(population) ==
    IF Truthy(population) THEN "Uganda Population" ELSE "Population data unavailable"

\* lines 62-65
estimate_gdp_growth_rate == Q(5, 100)

\* lines 73-78, for one element t of years
inflation_factor(inflation_rate, t) ==
    QPow(QAdd(QInt(1), QDivInt(NumQ(inflation_rate), 100)), t)

population_factor(population_growth_rate, t) ==
    QPow(QAdd(QInt(1), QDivInt(NumQ(population_growth_rate), 100)), t)

gdp_factor(gdp_growth_rate, gdp_impact_factor, t) ==
    QAdd(QMul(QPow(QAdd(QInt(1), gdp_growth_rate), t), NumQ(gdp_impact_factor)),
         QSub(QInt(1), NumQ(gdp_impact_factor)))

cbdc_multiplier(cbdc_adoption_rate, compliance_improvement, t) ==
    QAdd(QInt(1),
         QMul(QMul(QMul(alpha, QDivInt(NumQ(cbdc_adoption_rate), 100)),
                   QDivInt(NumQ(compliance_improvement), 100)),
              QInt(t)))

\* lines 81-96, the row of year t
results_row(w, t) ==
    LET inflation == inflation_factor(w.inflation_rate, t)
        population == population_factor(w.population_growth_rate, t)
        gdp == gdp_factor(estimate_gdp_growth_rate, w.gdp_impact_factor, t)
        cbdc == cbdc_multiplier(w.cbdc_adoption_rate, w.compliance_improvement, t)
        total_growth_multiplier == QMul(QMul(QMul(cbdc, inflation), population), gdp)
        tax_base == QMul(NumQ(w.baseline_tax_base), total_growth_multiplier)
        tax_revenue == QMul(tax_base, QDivInt(NumQ(w.effective_tax_rate), 100))
    IN  [Year |-> t, TaxBase |-> tax_base, TaxRevenue |-> tax_revenue,
         InflationFactor |-> inflation, PopulationFactor |-> population,
         GdpFactor |-> gdp, CbdcMultiplier |-> cbdc]

\* lines 70-96
simulation_logic(w) ==
    [i \in DOMAIN years_arr(w.time_horizon.n) |->
        results_row(w, years_arr(w.time_horizon.n)[i])]

\* the sidebar widgets' default values (lines 41-56)
DefaultWidgets ==
    [baseline_tax_base |-> PyFloat(50000), cbdc_adoption_rate |-> PyInt(50),
     compliance_improvement |-> PyInt(20), effective_tax_rate |-> PyInt(15),
     time_horizon |-> PyInt(5), inflation_rate |-> PyFloat(50),
     population_growth_rate |-> PyFloat(30), gdp_impact_factor |-> PyFloat(5)]

WidgetNames == DOMAIN DefaultWidgets

\* the values the user gives the sidebar widgets in the model
SidebarValues(name) ==
    CASE name = "baseline_tax_base" -> BaselineValues
      [] name = "cbdc_adoption_rate" -> {PyInt(0), PyInt(50)}
      [] name = "compliance_improvement" -> {PyInt(0), PyInt(20)}
      [] name = "effective_tax_rate" -> TaxRateValues
      [] name = "time_horizon" -> HorizonValues
      [] name = "inflation_rate" -> {PyFloat(0), PyFloat(50)}
      [] name = "population_growth_rate" -> {PyFloat(0), PyFloat(30)}
      [] OTHER -> {PyFloat(0), PyFloat(5), PyFloat(10)}

\* the data frame of every setting of the sidebar, computed once and looked
\* up one widget at a time
Results ==
    [b \in SidebarValues("baseline_tax_base") |->
     [a \in SidebarValues("cbdc_adoption_rate") |->
      [c \in SidebarValues("compliance_improvement") |->
       [r \in SidebarValues("effective_tax_rate") |->
        [h \in SidebarValues("time_horizon") |->
         [i \in SidebarValues("inflation_rate") |->
          [p \in SidebarValues("population_growth_rate") |->
           [g \in SidebarValues("gdp_impact_factor") |->
              simulation_logic(
                [baseline_tax_base |-> b, cbdc_adoption_rate |-> a,
                 compliance_improvement |-> c, effective_tax_rate |-> r,
                 time_horizon |-> h, inflation_rate |-> i,
                 population_growth_rate |-> p, gdp_impact_factor |-> g])]]]]]]]]

Result(w) ==
    Results[w.baseline_tax_base][w.cbdc_adoption_rate][w.compliance_improvement]
           [w.effective_tax_rate][w.time_horizon][w.inflation_rate]
           [w.population_growth_rate][w.gdp_impact_factor]

(***************************************************************************)
(* Actions of cbdc_tax_simulator.py                                        *)
(***************************************************************************)
\* the state a run of the script leaves; fresh says the file was attached
\* by the event that started the run
Run(ss, up, save_clicked, fresh) ==
    \E r \in {Script(ss, up, save_clicked)} :
    \E seen \in {IF fresh THEN 0 ELSE applied} :
        /\ session_state' = r.session_state
        /\ inputs' = ss
        /\ df_a' = r.df_a
        /\ df_b' = r.df_b
        /\ final' = r.final
        /\ download' = r.download
        /\ uploaded_file' = up
        /\ load_msg' = r.load_msg
        /\ crashed' = r.crashed
        /\ pending' = r.pending
        /\ applied' = IF r.pending /\ seen < MaxApplied THEN seen + 1 ELSE seen
        /\ run_no' = (run_no + 1) % RunNoMod
        /\ UNCHANGED <<app, vars2>>

\* the user moves a slider or edits a number input
ChangeWidget(key, v) ==
    /\ app = "scenarios"
    /\ session_state[key] # v
    /\ Run([session_state EXCEPT ![key] = v], uploaded_file, FALSE, FALSE)

\* the user clicks "Save Current Simulation"
ClickSave ==
    /\ app = "scenarios"
    /\ Run(session_state, uploaded_file, TRUE, FALSE)

\* the user attaches a file to the uploader
Upload(text) ==
    /\ app = "scenarios"
    /\ Run(session_state, Attached(text), FALSE, TRUE)

\* the user attaches the file the download button just gave
UploadDownload ==
    /\ app = "scenarios"
    /\ download.present
    /\ Run(session_state, Attached(download.content), FALSE, TRUE)

\* the user removes the file from the uploader
RemoveFile ==
    /\ app = "scenarios"
    /\ uploaded_file.present
    /\ Run(session_state, NoUpload, FALSE, TRUE)

\* the rerun st.experimental_rerun() asked for
Rerun ==
    /\ app = "scenarios"
    /\ pending
    /\ Run(session_state, uploaded_file, FALSE, FALSE)

(***************************************************************************)
(* Actions of cbdc_tax_simulator2.py                                       *)
(***************************************************************************)
\* a run that stops (st.stop) when the GDP fetch returned None
Run2_needs_gdp(w, gdp_outcome, population_outcome) ==
    /\ latest_gdp' = fetch_world_bank_data(cache, "NY.GDP.MKTP.CD", gdp_outcome)
    /\ latest_population' =
           fetch_world_bank_data(cache, "SP.POP.TOTL", population_outcome)
    /\ cache' = [c \in IndicatorCodes |->
                    Entry(IF c = "NY.GDP.MKTP.CD" THEN latest_gdp'
                          ELSE latest_population')]
    /\ sidebar' = [gdp |-> gdp_line(latest_gdp'),
                   population |-> population_line(latest_population')]
    /\ widgets' = w
    /\ df_results' = IF Truthy(latest_gdp') THEN Result(w) ELSE <<>>
    /\ UNCHANGED <<app, vars1>>

\* lines 30-96: one run of the script with the sidebar values w
Run2(w, gdp_outcome, population_outcome) ==
    /\ latest_gdp' = fetch_world_bank_data(cache, "NY.GDP.MKTP.CD", gdp_outcome)
    /\ latest_population' =
           fetch_world_bank_data(cache, "SP.POP.TOTL", population_outcome)
    /\ cache' = [c \in IndicatorCodes |->
                    Entry(IF c = "NY.GDP.MKTP.CD" THEN latest_gdp'
                          ELSE latest_population')]
    /\ sidebar' = [gdp |-> gdp_line(latest_gdp'),
                   population |-> population_line(latest_population')]
    /\ widgets' = w
    /\ df_results' = Result(w)
    /\ UNCHANGED <<app, vars1>>

\* the user moves a sidebar widget
ChangeSidebar(name, v) ==
    /\ app = "macro"
    /\ widgets[name] # v
    /\ \E g \in FetchOutcomes, p \in FetchOutcomes : Run2([widgets EXCEPT ![name] = v], g, p)

\* the user clicks the report button: a run with the widgets as they are
ClickReport ==
    /\ app = "macro"
    /\ \E g \in FetchOutcomes, p \in FetchOutcomes : Run2(widgets, g, p)

\* a cache entry reaches its time to live (ttl=3600)
CacheExpire(indicator_code) ==
    /\ app = "macro"
    /\ cache[indicator_code].hit
    /\ cache' = [cache EXCEPT ![indicator_code] = NoEntry]
    /\ UNCHANGED <<app, vars1, widgets, latest_gdp, latest_population, sidebar,
                   df_results>>

(***************************************************************************)
(* The state after the first run of the script, with the widgets' defaults *)
(***************************************************************************)
Init1 ==
    \E r \in {Script(DefaultSession, NoUpload, FALSE)} :
        /\ session_state = r.session_state
        /\ inputs = DefaultSession
        /\ df_a = r.df_a
        /\ df_b = r.df_b
        /\ final = r.final
        /\ download = r.download
        /\ uploaded_file = NoUpload
        /\ load_msg = r.load_msg
        /\ crashed = r.crashed
        /\ pending = r.pending
        /\ applied = 0
        /\ run_no = 1

\* before the script ever ran
Idle1 ==
    /\ session_state = DefaultSession
    /\ inputs = DefaultSession
    /\ df_a = <<>>
    /\ df_b = <<>>
    /\ final = <<>>
    /\ download = NoFile
    /\ uploaded_file = NoUpload
    /\ load_msg = "none"
    /\ crashed = FALSE
    /\ pending = FALSE
    /\ applied = 0
    /\ run_no = 0

Init2 ==
    \E g \in FetchOutcomes, p \in FetchOutcomes :
        /\ latest_gdp = g
        /\ latest_population = p
        /\ cache = [c \in IndicatorCodes |->
                       Entry(IF c = "NY.GDP.MKTP.CD" THEN g ELSE p)]
        /\ sidebar = [gdp |-> gdp_line(g), population |-> population_line(p)]
        /\ widgets = DefaultWidgets
        /\ df_results = Result(DefaultWidgets)

Idle2 ==
    /\ latest_gdp = PyNone
    /\ latest_population = PyNone
    /\ cache = [c \in IndicatorCodes |-> NoEntry]
    /\ sidebar = [gdp |-> "", population |-> ""]
    /\ widgets = DefaultWidgets
    /\ df_results = <<>>

Init ==
    \/ app = "scenarios" /\ Init1 /\ Idle2
    \/ app = "macro" /\ Idle1 /\ Init2

Next ==
    \/ \E key \in WidgetKeys : \E v \in WidgetValues(key) : ChangeWidget(key, v)
    \/ ClickSave
    \/ \E text \in SavedFiles \cup OtherFiles : Upload(text)
    \/ UploadDownload
    \/ RemoveFile
    \/ Rerun
    \/ \E name \in WidgetNames : \E v \in SidebarValues(name) : ChangeSidebar(name, v)
    \/ ClickReport
    \/ \E c \in IndicatorCodes : CacheExpire(c)

Spec == Init /\ [][Next]_vars

\* Streamlit starts the rerun experimental_rerun asked for at once
FairSpec == Spec /\ WF_vars(Rerun)

(***************************************************************************)
(* The widgets' declared ranges (lines 89-101) and the shape the load      *)
(* block reads (lines 169-179), as predicates on a session and on what     *)
(* load_simulation returned.                                               *)
(***************************************************************************)
InRange(p) ==
    /\ \A k \in {"ba", "bb"} : IsNumber(p[k]) /\ QLeq(QInt(MinBaseline), NumQ(p[k]))
    /\ \A k \in {"aa", "ab", "ca", "cb"} :
           IsNumber(p[k]) /\ QLeq(NumQ(p[k]), QInt(MaxPercent))
    /\ \A k \in {"tra", "trb"} : IsNumber(p[k]) /\ QLeq(NumQ(p[k]), QInt(MaxTaxRate))
    /\ p.th.ty = "int"
    /\ p.th.n \in 1..MaxHorizon

ScenarioKeys == {K_Baseline, K_Adoption, K_Compliance, K_TaxRate}

HasShape(loaded) ==
    \A i \in 1..2 :
        /\ loaded[i].ty = "obj"
        /\ \A k \in ScenarioKeys : HasKey(loaded[i], k)

\* the nine session parameters a loaded snapshot stands for
SessionOf(loaded) ==
    [ba |-> Item(loaded[1], K_Baseline), aa |-> Item(loaded[1], K_Adoption),
     ca |-> Item(loaded[1], K_Compliance), tra |-> Item(loaded[1], K_TaxRate),
     bb |-> Item(loaded[2], K_Baseline), ab |-> Item(loaded[2], K_Adoption),
     cb |-> Item(loaded[2], K_Compliance), trb |-> Item(loaded[2], K_TaxRate),
     th |-> loaded[3]]

ValidSnapshot(loaded) == HasShape(loaded) /\ InRange(SessionOf(loaded))

\* the last run got as far as the load block with a file attached
ReachedLoad == app = "scenarios" /\ uploaded_file.present /\ final # <<>>

C2_RejectsInvalid ==
    (ReachedLoad /\ ~ValidSnapshot(Loaded(uploaded_file.content))) =>
        /\ load_msg = "error"
        /\ session_state = inputs

(***************************************************************************)
(* C3.  Snapshot round trip.  The text the Save button offers parses back  *)
(* to the parameters it was written from; when the attached file is the    *)
(* snapshot of an in-range session s, the load block reports success and   *)
(* leaves the session equal to s; and the run whose widgets return s       *)
(* computes the tables of s.                                               *)
(***************************************************************************)
C3_Accepted(s) ==
    /\ load_msg = "success"
    /\ ~crashed
    /\ pending
    /\ session_state = s
    /\ inputs = s =>
           /\ df_a = simulate_tax_base(s.ba, s.aa, s.ca, s.tra, s.th)
           /\ df_b = simulate_tax_base(s.bb, s.ab, s.cb, s.trb, s.th)

C4_Completes ==
    app = "macro" =>
        /\ Len(df_results) = widgets.time_horizon.n
        /\ latest_gdp = PyNone => sidebar.gdp = "GDP data unavailable"
        /\ latest_population = PyNone =>
               sidebar.population = "Population data unavailable"

C4_FetchIsolation ==
    /\ []C4_Completes
    /\ [][(app = "macro" /\ widgets' = widgets) => df_results' = df_results]_vars

\* the GDP fetch failed and the population fetch did not, after the user
\* moved a widget
C4_Witness ==
    /\ app = "macro"
    /\ latest_gdp = PyNone
    /\ latest_population # PyNone
    /\ widgets.inflation_rate = PyFloat(0)
    /\ Len(df_results) = 5

(***************************************************************************)
(* C5.  Lower bounds of the table.  As stated: with in-range inputs every  *)
(* tax_base and every tax_revenue is at least baseline_tax_base.  As       *)
(* amended: every tax_base is at least the baseline and every tax_revenue  *)
(* is at least the baseline times tax_rate / 100.                          *)
(***************************************************************************)
RowsAtLeast(df, base_floor, revenue_floor) ==
    \A i \in DOMAIN df :
        /\ QLeq(base_floor, df[i].TaxBase)
        /\ QLeq(revenue_floor, df[i].TaxRevenue)

RateOf(baseline, tax_rate) == QDivInt(QMul(NumQ(baseline), NumQ(tax_rate)), 100)

C5_AtLeastBaseline ==
    /\ (app = "scenarios" /\ InRange(inputs)) =>
           /\ df_a # <<>>
           /\ df_b # <<>>
           /\ RowsAtLeast(df_a, NumQ(inputs.ba), NumQ(inputs.ba))
           /\ RowsAtLeast(df_b, NumQ(inputs.bb), NumQ(inputs.bb))
    /\ app = "macro" =>
           /\ df_results # <<>>
           /\ RowsAtLeast(df_results, NumQ(widgets.baseline_tax_base),
                          NumQ(widgets.baseline_tax_base))

C5_AtLeastBaselineShare ==
    /\ (app = "scenarios" /\ InRange(inputs)) =>
           /\ df_a # <<>>
           /\ df_b # <<>>
           /\ RowsAtLeast(df_a, NumQ(inputs.ba), RateOf(inputs.ba, inputs.tra))
           /\ RowsAtLeast(df_b, NumQ(inputs.bb), RateOf(inputs.bb, inputs.trb))
    /\ app = "macro" =>
           /\ df_results # <<>>
           /\ RowsAtLeast(df_results, NumQ(widgets.baseline_tax_base),
                          RateOf(widgets.baseline_tax_base, widgets.effective_tax_rate))

\* the bounds are met with equality: no adoption, the smallest baseline
C5_Witness ==
    /\ app = "scenarios"
    /\ InRange(inputs)
    /\ inputs.ba = PyFloat(MinBaseline * FloatScale)
    /\ inputs.aa = PyInt(0)
    /\ inputs.tra = PyInt(15)
    /\ Len(df_a) >= 2

(***************************************************************************)
(* C6.  Prefix stability: the table of the last run, cut after M rows, is  *)
(* the table the same parameters give with time horizon M, for every       *)
(* M of the model up to the horizon of the run.                            *)
(***************************************************************************)
C6_PrefixStable ==
    /\ (app = "scenarios" /\ InRange(inputs)) =>
           \A m \in HorizonValues :
               m.n <= inputs.th.n =>
                   /\ SubSeq(df_a, 1, m.n) =
                          simulate_tax_base(inputs.ba, inputs.aa, inputs.ca,
                                            inputs.tra, m)
                   /\ SubSeq(df_b, 1, m.n) =
                          simulate_tax_base(inputs.bb, inputs.ab, inputs.cb,
                                            inputs.trb, m)
    /\ app = "macro" =>
           \A m \in HorizonValues :
               m.n <= widgets.time_horizon.n =>
                   SubSeq(df_results, 1, m.n) =
                       Result([widgets EXCEPT !.time_horizon = m])

\* a table of five rows, compared with the tables of the shorter horizons
C6_Witness ==
    /\ app = "macro"
    /\ widgets.time_horizon = PyInt(5)
    /\ widgets.cbdc_adoption_rate = PyInt(0)
    /\ widgets.gdp_impact_factor = PyFloat(10)
    /\ Len(df_results) = 5

(***************************************************************************)
(* C7.  The basic variant is linear: tax_base(t) is baseline times         *)
(* 1 + adoption * compliance * t / 20000 (alpha = 0.5), consecutive        *)
(* years differ by the same amount, and the defaults 5000, 50, 20, 15      *)
(* with horizon 5 give 5250.00 and 787.50 in year 1, 6250.00 and 937.50    *)
(* in year 5.                                                              *)
(***************************************************************************)
LinearRows(df, baseline, adoption_rate, compliance_increase) ==
    /\ \A i \in DOMAIN df :
           QEq(df[i].TaxBase,
               QMul(NumQ(baseline),
                    QAdd(QInt(1),
                         QDivInt(QMul(QMul(NumQ(adoption_rate),
                                           NumQ(compliance_increase)),
                                      QInt(df[i].Year)),
                                 20000))))
    /\ \A i \in 2..(Len(df) - 1) :
           QEq(QAdd(df[i + 1].TaxBase, df[i - 1].TaxBase),
               QAdd(df[i].TaxBase, df[i].TaxBase))

C7_Linear ==
    (app = "scenarios" /\ InRange(inputs)) =>
        /\ LinearRows(df_a, inputs.ba, inputs.aa, inputs.ca)
        /\ LinearRows(df_b, inputs.bb, inputs.ab, inputs.cb)
        /\ inputs = DefaultSession =>
               /\ QEq(df_a[1].TaxBase, QInt(5250))
               /\ QEq(df_a[1].TaxRevenue, Q(1575, 2))
               /\ QEq(df_a[5].TaxBase, QInt(6250))
               /\ QEq(df_a[5].TaxRevenue, Q(1875, 2))

\* the example of the claim, computed by a run the user started
C7_Witness ==
    /\ app = "scenarios"
    /\ inputs = DefaultSession
    /\ Len(df_a) = 5
    /\ download.present

(***************************************************************************)
(* C8.  Revenue derivation: in every row of every table tax_revenue is     *)
(* that row's tax_base times tax_rate / 100, and it is 0 when the tax      *)
(* rate is 0.                                                              *)
(***************************************************************************)
RevenueDerived(df, tax_rate) ==
    \A i \in DOMAIN df :
        /\ QEq(df[i].TaxRevenue, QDivInt(QMul(df[i].TaxBase, NumQ(tax_rate)), 100))
        /\ tax_rate.n = 0 => df[i].TaxRevenue.n = <<>>

C8_RevenueDerived ==
    /\ app = "scenarios" =>
           /\ df_a # <<>> => RevenueDerived(df_a, inputs.tra)
           /\ df_b # <<>> => RevenueDerived(df_b, inputs.trb)
    /\ app = "macro" => RevenueDerived(df_results, widgets.effective_tax_rate)

\* a table computed with tax rate 0 and a growing tax base
C8_Witness ==
    /\ app = "scenarios"
    /\ inputs.tra = PyInt(0)
    /\ inputs.aa = PyInt(50)
    /\ Len(df_a) = 5

(***************************************************************************)
(* C9.  Each table has time_horizon rows with Year 1, 2, ... in order,     *)
(* the final-year comparison reads the rows of year time_horizon, and the  *)
(* two scenarios' tables are equally long.                                 *)
(***************************************************************************)
C9_Rows ==
    /\ (app = "scenarios" /\ InRange(inputs)) =>
           /\ Len(df_a) = inputs.th.n
           /\ Len(df_b) = Len(df_a)
           /\ \A i \in 1..inputs.th.n : df_a[i].Year = i /\ df_b[i].Year = i
           /\ final = <<df_a[inputs.th.n], df_b[inputs.th.n]>>
           /\ final[1].Year = inputs.th.n
           /\ final[2].Year = inputs.th.n
    /\ app = "macro" =>
           /\ Len(df_results) = widgets.time_horizon.n
           /\ \A i \in 1..widgets.time_horizon.n : df_results[i].Year = i

\* a horizon the user chose
C9_Witness ==
    /\ app = "scenarios"
    /\ InRange(inputs)
    /\ inputs.th = PyInt(2)
    /\ Len(df_a) = 2
    /\ final # <<>>

====
